---------------------------- MODULE Spec2Model ----------------------------
(***************************************************************************)
(* Model of the ingestion pipeline of db_migration_api: the two request    *)
(* handlers of routes.py (upload_csv, batch_insert), the parser and the    *)
(* per-table validators of utils.py, the request schema of schemas.py and  *)
(* the bulk inserts of crud.py against the tables declared in models.py.   *)
(*                                                                         *)
(* A text is a sequence of tokens (one-character strings such as " " and   *)
(* "1", or whole words such as "Engineering"); whitespace stripping,       *)
(* substring tests, integer and timestamp parsing are computed on it.      *)
(***************************************************************************)
EXTENDS Integers, Sequences, FiniteSets, TLC

(***************************************************************************)
(* Bounds of the model and constants of the program.                       *)
(***************************************************************************)
MaxRows == 2

BatchLimit == 1000

MinItems == 1

MaxItems == 1000

DefaultDepartmentId == 1

MaxNameLength == 100

(***************************************************************************)
(* Cell values: what a pandas cell (or a JSON value) can be.               *)
(***************************************************************************)
NaN == [k |-> "nan", n |-> 0, s |-> <<>>]

IntV(i) == [k |-> "int", n |-> i, s |-> <<>>]

StrV(t) == [k |-> "str", n |-> 0, s |-> t]

TsV(t) == [k |-> "ts", n |-> 0, s |-> t]

NaT == [k |-> "nat", n |-> 0, s |-> <<>>]

isna(v) == v.k = "nan"

SetMin(S) == CHOOSE x \in S : \A y \in S : x <= y

SetMax(S) == CHOOSE x \in S : \A y \in S : y <= x

\* a strip that removes the leading whitespace only
strip_leading_only(t) ==
    LET idx == {i \in 1..Len(t) : t[i] # " "}
    IN  IF idx = {} THEN <<>> ELSE SubSeq(t, SetMin(idx), Len(t))

\* str.strip(): the text between the first and the last non-space token
strip(t) ==
    LET idx == {i \in 1..Len(t) : t[i] # " "}
    IN  IF idx = {} THEN <<>> ELSE SubSeq(t, SetMin(idx), SetMax(idx))

\* "kw" in text
Contains(t, kw) == \E i \in 1..Len(t) : t[i] = kw

DigitTok == <<"0", "1", "2", "3", "4", "5", "6", "7", "8", "9">>

IsDigit(c) == \E d \in 1..10 : DigitTok[d] = c

DigitVal(c) == (CHOOSE d \in 1..10 : DigitTok[d] = c) - 1

RECURSIVE IntToText(_)
\* str(n) of an integer
IntToText(i) ==
    IF i < 0 THEN <<"-">> \o IntToText(0 - i)
    ELSE IF i < 10 THEN <<DigitTok[i + 1]>>
    ELSE IntToText(i \div 10) \o <<DigitTok[(i % 10) + 1]>>

RECURSIVE DigitsValue(_)
DigitsValue(t) ==
    IF Len(t) = 0 THEN 0
    ELSE DigitsValue(SubSeq(t, 1, Len(t) - 1)) * 10 + DigitVal(t[Len(t)])

\* str(v)
ToStr(v) ==
    CASE v.k = "str" -> v.s
      [] v.k = "int" -> IntToText(v.n)
      [] v.k = "nan" -> <<"nan">>
      [] v.k = "nat" -> <<"NaT">>
      [] OTHER -> v.s

\* int(v): ok = FALSE stands for the ValueError of int() on a string that
\* is no integer literal (int() itself strips surrounding whitespace)
PyInt(v) ==
    IF v.k = "int" THEN [ok |-> TRUE, n |-> v.n]
    ELSE IF v.k # "str" THEN [ok |-> FALSE, n |-> 0]
    ELSE LET t == strip(v.s)
             neg == Len(t) > 0 /\ t[1] = "-"
             d == IF Len(t) > 0 /\ t[1] \in {"-", "+"} THEN Tail(t) ELSE t
         IN  IF Len(d) > 0 /\ \A i \in 1..Len(d) : IsDigit(d[i])
             THEN [ok |-> TRUE, n |-> IF neg THEN 0 - DigitsValue(d) ELSE DigitsValue(d)]
             ELSE [ok |-> FALSE, n |-> 0]

DateToks == {"2023-01-15", "2021-11-07"}

TimeToks == {"09:00:00", "02:48:42"}

\* pd.to_datetime(text): ok = FALSE stands for the parser's ValueError; the
\* empty string parses to NaT without an error
ToDatetime(t) ==
    IF t = <<>> THEN [ok |-> TRUE, v |-> NaT]
    ELSE IF Len(t) = 1 /\ t[1] \in DateToks
         THEN [ok |-> TRUE, v |-> TsV(<<t[1], "00:00:00">>)]
    ELSE IF Len(t) = 3 /\ t[1] \in DateToks /\ t[2] \in {"T", " "} /\ t[3] \in TimeToks
         THEN [ok |-> TRUE, v |-> TsV(<<t[1], t[3]>>)]
    ELSE [ok |-> FALSE, v |-> NaT]

(***************************************************************************)
(* DataFrames: a set of column labels and a sequence of rows, each row a   *)
(* function from the labels to cell values.  The integer labels 0, 1, ...  *)
(* that read_csv(header=None) gives are written "0", "1", ...              *)
(***************************************************************************)
Range(f) == {f[i] : i \in DOMAIN f}

Raised(detail, missing) ==
    [raised |-> TRUE, detail |-> detail, missing |-> missing, out |-> <<>>]

Returned(out) ==
    [raised |-> FALSE, detail |-> "", missing |-> <<>>, out |-> out]

\* the strings read_csv takes for a missing value
NaStrings == {<<>>, <<"NA">>, <<"NaN">>, <<"null">>}

IsIntLiteral(t) ==
    LET d == IF Len(t) > 0 /\ t[1] \in {"-", "+"} THEN Tail(t) ELSE t
    IN  Len(d) > 0 /\ \A i \in 1..Len(d) : IsDigit(d[i])

\* pd.read_csv(text, header=None, sep=','): blank lines are skipped, no line
\* at all is an EmptyDataError, a line longer than the first a ParserError
\* and a shorter one is filled with NaN; a column whose cells are all
\* integer literals (or missing) is numeric, any other column keeps its
\* cells as strings; the columns are labelled 0, 1, ...
read_csv(lines) ==
    LET kept == SelectSeq(lines, LAMBDA l : ~(Len(l) = 1 /\ l[1] = <<>>))
    IN  IF kept = <<>> THEN Raised("No columns to parse from file", <<>>)
        ELSE
        LET w == Len(kept[1])
            cell(i, j) == IF j <= Len(kept[i]) THEN kept[i][j] ELSE <<>>
            numericCols == {j \in 1..w : \A i \in 1..Len(kept) :
                              cell(i, j) \in NaStrings \/ IsIntLiteral(cell(i, j))}
            value(i, j) == IF cell(i, j) \in NaStrings THEN NaN
                           ELSE IF j \in numericCols THEN IntV(PyInt(StrV(cell(i, j))).n)
                           ELSE StrV(cell(i, j))
            labels == {DigitTok[j] : j \in 1..w}
            pos(c) == CHOOSE j \in 1..w : DigitTok[j] = c
        IN  IF \E i \in 1..Len(kept) : Len(kept[i]) > w
            THEN Raised("Error tokenizing data", <<>>)
            ELSE Returned([columns |-> labels,
                           rows |-> [i \in 1..Len(kept) |->
                                       [c \in labels |-> value(i, pos(c))]]])

\* df.columns = names: the j-th column takes the j-th name
SetColumns(df, names) ==
    [columns |-> Range(names),
     rows |-> [i \in 1..Len(df.rows) |->
                 [c \in Range(names) |->
                    df.rows[i][DigitTok[CHOOSE j \in 1..Len(names) : names[j] = c]]]]]

\* pd.DataFrame(data) of a list of dicts: the columns are the union of the
\* keys, a key a record lacks is NaN in its row
DataFrame(data) ==
    LET cols == UNION {DOMAIN data[i] : i \in 1..Len(data)}
    IN  [columns |-> cols,
         rows |-> [i \in 1..Len(data) |->
                     [c \in cols |-> IF c \in DOMAIN data[i] THEN data[i][c] ELSE NaN]]]

DepartmentKeywords == {"Product Management", "Sales", "Engineering"}

JobKeywords == {"Recruiter", "Manager", "Assistant", "VP"}

\* a parse_csv_content that tests the job keywords before the department
\* keywords
parse_csv_content_jobs_first(content) ==
    IF ~content.utf8 THEN Raised("Invalid CSV format", <<>>)
    ELSE
    LET r == read_csv(content.lines)
    IN  IF r.raised THEN Raised("Invalid CSV format", <<>>)
        ELSE
        LET df == r.out
            n == Cardinality(df.columns)
            first_row == IF Len(df.rows) > 0 THEN ToStr(df.rows[1]["1"]) ELSE <<>>
        IN  IF n = 2
            THEN IF \E kw \in JobKeywords : Contains(first_row, kw)
                 THEN Returned(SetColumns(df, <<"id", "job">>))
                 ELSE IF \E kw \in DepartmentKeywords : Contains(first_row, kw)
                 THEN Returned(SetColumns(df, <<"id", "department">>))
                 ELSE Returned(SetColumns(df, <<"id", "name">>))
            ELSE IF n = 4
            THEN Returned(SetColumns(df, <<"id", "name", "datetime", "department_id">>))
            ELSE IF n = 5
            THEN Returned(SetColumns(df, <<"id", "name", "datetime", "department_id", "job_id">>))
            ELSE Returned(df)

\* parse_csv_content: the bytes are decoded, read without a header, and the
\* columns are named from the column count alone (for 2 columns, from the
\* second cell of the first row); any failure is a ValueError
parse_csv_content(content) ==
    IF ~content.utf8 THEN Raised("Invalid CSV format", <<>>)
    ELSE
    LET r == read_csv(content.lines)
    IN  IF r.raised THEN Raised("Invalid CSV format", <<>>)
        ELSE
        LET df == r.out
            n == Cardinality(df.columns)
            first_row == IF Len(df.rows) > 0 THEN ToStr(df.rows[1]["1"]) ELSE <<>>
        IN  IF n = 2
            THEN IF \E kw \in DepartmentKeywords : Contains(first_row, kw)
                 THEN Returned(SetColumns(df, <<"id", "department">>))
                 ELSE IF \E kw \in JobKeywords : Contains(first_row, kw)
                 THEN Returned(SetColumns(df, <<"id", "job">>))
                 ELSE Returned(SetColumns(df, <<"id", "name">>))
            ELSE IF n = 4
            THEN Returned(SetColumns(df, <<"id", "name", "datetime", "department_id">>))
            ELSE IF n = 5
            THEN Returned(SetColumns(df, <<"id", "name", "datetime", "department_id", "job_id">>))
            ELSE Returned(df)

(***************************************************************************)
(* The row validators.  A validator raises (ValueError) or returns the     *)
(* list of records to insert.                                              *)
(***************************************************************************)
Blank(v) == isna(v) \/ strip(ToStr(v)) = <<>>

MissingColumns(required, df) == SelectSeq(required, LAMBDA c : c \notin df.columns)

validate_departments_data(df) ==
    IF "department" \notin df.columns
    THEN Raised("Missing required columns", <<"department">>)
    ELSE LET kept == SelectSeq(df.rows, LAMBDA row : ~Blank(row["department"]))
         IN  Returned([i \in 1..Len(kept) |->
                         [department |-> strip(ToStr(kept[i]["department"]))]])

\* a jobs validator that requires job and department_id of every input
validate_jobs_data_strict(df) ==
    LET missing_columns == MissingColumns(<<"job", "department_id">>, df)
    IN  IF missing_columns # <<>>
        THEN Raised("Missing required columns", missing_columns)
        ELSE LET kept == SelectSeq(df.rows, LAMBDA row :
                             ~Blank(row["job"]) /\ ~isna(row["department_id"]))
             IN  IF \E i \in 1..Len(kept) : ~PyInt(kept[i]["department_id"]).ok
                 THEN Raised("invalid literal for int()", <<>>)
                 ELSE Returned([i \in 1..Len(kept) |->
                                  [job |-> strip(ToStr(kept[i]["job"])),
                                   department_id |-> PyInt(kept[i]["department_id"]).n]])

validate_jobs_data(df) ==
    LET required_columns == IF "id" \in df.columns /\ "job" \in df.columns
                            THEN <<"id", "job">>
                            ELSE <<"job", "department_id">>
        missing_columns == MissingColumns(required_columns, df)
    IN  IF missing_columns # <<>>
        THEN Raised("Missing required columns", missing_columns)
        ELSE IF "department_id" \in df.columns
        THEN LET kept == SelectSeq(df.rows, LAMBDA row :
                             ~Blank(row["job"]) /\ ~isna(row["department_id"]))
             IN  IF \E i \in 1..Len(kept) : ~PyInt(kept[i]["department_id"]).ok
                 THEN Raised("invalid literal for int()", <<>>)
                 ELSE Returned([i \in 1..Len(kept) |->
                                  [job |-> strip(ToStr(kept[i]["job"])),
                                   department_id |-> PyInt(kept[i]["department_id"]).n]])
        ELSE LET kept == SelectSeq(df.rows, LAMBDA row : ~Blank(row["job"]))
             IN  Returned([i \in 1..Len(kept) |->
                             [job |-> strip(ToStr(kept[i]["job"])),
                              department_id |-> DefaultDepartmentId]])

\* the datetime the loop stores for a cell: a string is parsed, any other
\* value is taken as it is
DatetimeOf(v) == IF v.k = "str" THEN ToDatetime(v.s) ELSE [ok |-> TRUE, v |-> v]

validate_employees_data(df) ==
    LET required_columns ==
            IF "id" \in df.columns
            THEN <<"id", "name", "datetime", "department_id", "job_id">>
            ELSE <<"name", "datetime", "department_id", "job_id">>
        missing_columns == MissingColumns(required_columns, df)
    IN  IF missing_columns # <<>>
        THEN Raised("Missing required columns", missing_columns)
        ELSE LET kept == SelectSeq(df.rows, LAMBDA row :
                             /\ ~Blank(row["name"])
                             /\ ~isna(row["datetime"])
                             /\ ~isna(row["department_id"])
                             /\ ~isna(row["job_id"])
                             /\ DatetimeOf(row["datetime"]).ok)
             IN  IF \E i \in 1..Len(kept) :
                        \/ ~PyInt(kept[i]["department_id"]).ok
                        \/ ~PyInt(kept[i]["job_id"]).ok
                 THEN Raised("invalid literal for int()", <<>>)
                 ELSE Returned([i \in 1..Len(kept) |->
                                  [name |-> strip(ToStr(kept[i]["name"])),
                                   datetime |-> DatetimeOf(kept[i]["datetime"]).v,
                                   department_id |-> PyInt(kept[i]["department_id"]).n,
                                   job_id |-> PyInt(kept[i]["job_id"]).n]])

valid_tables == {"departments", "jobs", "employees", "hired_employees"}

\* get_table_validator(table_name)(df)
get_table_validator(table_name, df) ==
    CASE table_name = "departments" -> validate_departments_data(df)
      [] table_name = "jobs" -> validate_jobs_data(df)
      [] table_name \in {"employees", "hired_employees"} -> validate_employees_data(df)
      [] OTHER -> Raised("Unsupported table", <<>>)

\* validate_batch_data(data, table_name)
validate_batch_data(data, table_name) ==
    IF Len(data) = 0 THEN Raised("Empty data list", <<>>)
    ELSE IF Len(data) > BatchLimit
    THEN Raised("Batch size cannot exceed 1000 records", <<>>)
    ELSE get_table_validator(table_name, DataFrame(data))

(***************************************************************************)
(* The storage collaborator: the three tables of models.py.  A bulk insert *)
(* commits the whole batch or raises and leaves the tables as they were.   *)
(***************************************************************************)
EmptyStore == [departments |-> <<>>, jobs |-> <<>>, employees |-> <<>>]

Ids(rows) == {rows[i].id : i \in 1..Len(rows)}

\* Department.department is unique
UniqueDepartments(st, recs) ==
    LET old == {st.departments[i].department : i \in 1..Len(st.departments)}
        new == {recs[i].department : i \in 1..Len(recs)}
    IN  Cardinality(new) = Len(recs) /\ old \cap new = {}

\* the records whose name does not fit its String(100) column
TooLong(recs, column) == {i \in 1..Len(recs) : Len(recs[i][column]) > MaxNameLength}

\* whether the store accepts the batch: the unique department name, the
\* DateTime column that takes timestamps only, and (where the engine
\* enforces them) the String(100) length and the foreign keys
Accepts(st, enforce, table, recs) ==
    CASE table = "departments" ->
            /\ UniqueDepartments(st, recs)
            /\ enforce => TooLong(recs, "department") = {}
      [] table = "jobs" ->
            enforce => /\ TooLong(recs, "job") = {}
                       /\ \A i \in 1..Len(recs) : recs[i].department_id \in Ids(st.departments)
      [] OTHER ->
            /\ \A i \in 1..Len(recs) : recs[i].datetime.k = "ts"
            /\ enforce => TooLong(recs, "name") = {}
            /\ enforce => \A i \in 1..Len(recs) :
                             /\ recs[i].department_id \in Ids(st.departments)
                             /\ recs[i].job_id \in Ids(st.jobs)

\* db.add_all(...); db.commit(): the rows get the next ids of their table
Committed(st, table, recs) ==
    CASE table = "departments" ->
            [st EXCEPT !.departments = @ \o [i \in 1..Len(recs) |->
                [id |-> Len(st.departments) + i, department |-> recs[i].department]]]
      [] table = "jobs" ->
            [st EXCEPT !.jobs = @ \o [i \in 1..Len(recs) |->
                [id |-> Len(st.jobs) + i, job |-> recs[i].job,
                 department_id |-> recs[i].department_id]]]
      [] OTHER ->
            [st EXCEPT !.employees = @ \o [i \in 1..Len(recs) |->
                [id |-> Len(st.employees) + i, name |-> recs[i].name,
                 datetime |-> recs[i].datetime,
                 department_id |-> recs[i].department_id,
                 job_id |-> recs[i].job_id]]]

(***************************************************************************)
(* The request handlers of routes.py, up to their call of the store.       *)
(***************************************************************************)
Response(status, detail, missing, n) ==
    [status |-> status, detail |-> detail, missing |-> missing, records_inserted |-> n]

NoResponse == Response(0, "", <<>>, 0)

\* the two except clauses of a handler: a ValueError becomes a 400 carrying
\* its message, any other exception (an HTTPException raised inside the try
\* block included) becomes the 500 "Internal server error"
ExceptClauses(type, detail, missing) ==
    IF type = "ValueError" THEN Response(400, detail, missing, 0)
    ELSE Response(500, "Internal server error", <<>>, 0)

Finished(response) == [pc |-> "done", validated_data |-> <<>>, response |-> response]

CallStore(validated_data) ==
    [pc |-> "insert", validated_data |-> validated_data, response |-> NoResponse]

\* the request model of batch_insert: data has 1 to 1000 items
BatchInsertRequest(data) == Len(data) >= MinItems /\ Len(data) <= MaxItems

\* file.filename.endswith('.csv')
IsCsvName(filename) == Len(filename) > 0 /\ filename[Len(filename)] = ".csv"

\* an upload handler without the check of an empty validation result: it
\* calls the store with whatever the validator returned
upload_csv_body_unchecked(table, filename, content) ==
    IF table \notin valid_tables
    THEN Finished(Response(400, "Invalid table name", <<>>, 0))
    ELSE IF ~IsCsvName(filename)
    THEN Finished(Response(400, "File must be a CSV", <<>>, 0))
    ELSE LET p == parse_csv_content(content)
         IN  IF p.raised THEN Finished(ExceptClauses("ValueError", p.detail, <<>>))
             ELSE LET v == get_table_validator(table, p.out)
                  IN  IF v.raised
                      THEN Finished(ExceptClauses("ValueError", v.detail, v.missing))
                      ELSE CallStore(v.out)

upload_csv_body(table, filename, content) ==
    IF table \notin valid_tables
    THEN Finished(Response(400, "Invalid table name", <<>>, 0))
    ELSE IF ~IsCsvName(filename)
    THEN Finished(Response(400, "File must be a CSV", <<>>, 0))
    ELSE LET p == parse_csv_content(content)
         IN  IF p.raised THEN Finished(ExceptClauses("ValueError", p.detail, <<>>))
             ELSE LET v == get_table_validator(table, p.out)
                  IN  IF v.raised
                      THEN Finished(ExceptClauses("ValueError", v.detail, v.missing))
                      ELSE IF v.out = <<>>
                      THEN Finished(ExceptClauses("HTTPException", "No valid data found in CSV", <<>>))
                      ELSE CallStore(v.out)

\* a batch handler that, like the upload handler, runs the validator with
\* no check of the number of records
batch_insert_body_unguarded(table, data) ==
    IF table \notin valid_tables
    THEN Finished(Response(400, "Invalid table name", <<>>, 0))
    ELSE LET v == get_table_validator(table, DataFrame(data))
         IN  IF v.raised
             THEN Finished(ExceptClauses("ValueError", v.detail, v.missing))
             ELSE IF v.out = <<>>
             THEN Finished(ExceptClauses("HTTPException", "No valid data provided", <<>>))
             ELSE CallStore(v.out)

batch_insert_body(table, data) ==
    IF ~BatchInsertRequest(data)
    THEN Finished(Response(422, "Unprocessable Entity", <<>>, 0))
    ELSE IF table \notin valid_tables
    THEN Finished(Response(400, "Invalid table name", <<>>, 0))
    ELSE LET v == validate_batch_data(data, table)
         IN  IF v.raised
             THEN Finished(ExceptClauses("ValueError", v.detail, v.missing))
             ELSE IF v.out = <<>>
             THEN Finished(ExceptClauses("HTTPException", "No valid data provided", <<>>))
             ELSE CallStore(v.out)

(***************************************************************************)
(* The inputs a request is drawn from.                                     *)
(***************************************************************************)
SeqsUpTo(S, n) == UNION {[1..k -> S] : k \in 0..n}

Tables == valid_tables \cup {"unknown_table"}

tsT == StrV(<<"2023-01-15", "T", "09:00:00">>)

tsS == StrV(<<"2021-11-07", " ", "02:48:42">>)

\* a name of 101 characters
LongName == [i \in 1..(MaxNameLength + 1) |-> "x"]

\* JSON records, by the keys they carry
DepartmentRecords ==
    { [department |-> StrV(<<"Engineering">>)],
      [department |-> StrV(<<" ", "Sales", " ">>)],
      [department |-> StrV(<<" ">>)],
      [department |-> NaN],
      [department |-> StrV(LongName)] }

NamedDepartmentRecords ==
    { [name |-> StrV(<<"Engineering">>)],
      [name |-> StrV(<<"Marketing">>)],
      [name |-> StrV(<<" ">>)] }

JobRecords ==
    { [job |-> StrV(<<"Software", " ", "Engineer">>), department_id |-> IntV(1)],
      [job |-> StrV(<<" ", "Recruiter">>), department_id |-> StrV(<<"2">>)],
      [job |-> StrV(<<" ">>), department_id |-> IntV(1)],
      [job |-> StrV(<<"Marketing", " ", "Manager">>), department_id |-> NaN],
      [job |-> StrV(<<"Marketing", " ", "Manager">>), department_id |-> StrV(<<"x">>)],
      [job |-> StrV(<<"Marketing", " ", "Manager">>), department_id |-> StrV(<<>>)],
      [job |-> StrV(<<"Software", " ", "Engineer">>), department_id |-> IntV(0)] }

NamedJobRecords ==
    { [name |-> StrV(<<"Software", " ", "Engineer">>), department_id |-> IntV(1)],
      [name |-> StrV(<<"Marketing", " ", "Manager">>), department_id |-> IntV(2)] }

IdJobRecords ==
    { [id |-> IntV(1), job |-> StrV(<<"Software", " ", "Engineer">>)],
      [id |-> IntV(2), job |-> StrV(<<" ">>)] }

BareJobRecords == { [job |-> StrV(<<"Software", " ", "Engineer">>)] }

John == [name |-> StrV(<<"John", " ", "Doe">>), datetime |-> tsT,
         department_id |-> IntV(1), job_id |-> IntV(1)]

EmployeeRecords ==
    { John,
      [John EXCEPT !.name = StrV(<<" ", "Ann">>), !.datetime = tsS],
      [John EXCEPT !.name = StrV(<<" ">>)],
      [John EXCEPT !.name = NaN],
      [John EXCEPT !.datetime = NaN],
      [John EXCEPT !.datetime = StrV(<<"bad">>)],
      [John EXCEPT !.datetime = StrV(<<>>)],
      [John EXCEPT !.department_id = NaN],
      [John EXCEPT !.department_id = StrV(<<"x">>)],
      [John EXCEPT !.job_id = StrV(<<>>)] }

IdEmployeeRecords ==
    { [id |-> IntV(7), name |-> John.name, datetime |-> tsT,
       department_id |-> IntV(1), job_id |-> IntV(1)] }

ShortEmployeeRecords ==
    { [name |-> John.name, datetime |-> tsT, department_id |-> IntV(1)] }

\* n department records with distinct names, keyed "department"
BulkDepartments(n) ==
    [i \in 1..n |-> [department |-> StrV(<<"Department", " ">> \o IntToText(i))]]

\* the same keyed "name", as the tests send them
BulkNamedDepartments(n) ==
    [i \in 1..n |-> [name |-> StrV(<<"Department", " ">> \o IntToText(i))]]

BatchInputs ==
    UNION { SeqsUpTo(R, MaxRows) :
              R \in {DepartmentRecords, NamedDepartmentRecords, JobRecords,
                     NamedJobRecords, IdJobRecords, BareJobRecords,
                     EmployeeRecords, IdEmployeeRecords, ShortEmployeeRecords} }
    \cup { BulkDepartments(n) : n \in {BatchLimit, BatchLimit + 1} }
    \cup { BulkNamedDepartments(n) : n \in {BatchLimit, BatchLimit + 1} }

\* CSV lines, by their number of cells
Lines1 == { << <<"Engineering">> >>, << <<"Marketing">> >> }

Headers1 == { << <<"name">> >> }

Lines2 ==
    { << <<"1">>, <<"Engineering">> >>,
      << <<"2">>, <<" ", "Sales", " ">> >>,
      << <<"3">>, <<>> >>,
      << <<"4">>, <<"Finance">> >>,
      << <<"1">>, <<"Recruiter">> >>,
      << <<"2">>, <<"Marketing", " ", "Manager">> >>,
      << <<"Software", " ", "Engineer">>, <<"1">> >>,
      << <<"Marketing", " ", "Manager">>, <<"2">> >>,
      << <<"5">>, <<"Sales", " ", "Manager">> >> }

Headers2 == { << <<"name">>, <<"department_id">> >>, << <<"id">>, <<"department">> >> }

Lines3 == { << <<"1">>, <<"Engineering">>, <<"x">> >> }

Lines4 == { << <<"1">>, <<"John", " ", "Doe">>, <<"2023-01-15", "T", "09:00:00">>, <<"1">> >> }

JohnLine == << <<"1">>, <<"John", " ", "Doe">>, <<"2023-01-15", "T", "09:00:00">>, <<"1">>, <<"1">> >>

Lines5 ==
    { JohnLine,
      [JohnLine EXCEPT ![1] = <<"2">>, ![2] = <<" ", "Ann">>,
                       ![3] = <<"2021-11-07", " ", "02:48:42">>],
      [JohnLine EXCEPT ![2] = <<>>],
      [JohnLine EXCEPT ![3] = <<"bad">>],
      [JohnLine EXCEPT ![3] = <<>>],
      [JohnLine EXCEPT ![4] = <<>>],
      [JohnLine EXCEPT ![5] = <<"x">>] }

Headers5 == { << <<"id">>, <<"name">>, <<"datetime">>, <<"department_id">>, <<"job_id">> >> }

\* an optional header line followed by up to MaxRows lines
Grids(headers, lines) ==
    { h \o d : h \in {<<>>} \cup {<<x>> : x \in headers}, d \in SeqsUpTo(lines, MaxRows) }

\* n lines "i,Engineering i"
BulkLines(n) == [i \in 1..n |-> << IntToText(i), <<"Engineering", " ">> \o IntToText(i) >>]

CsvContents ==
    { [utf8 |-> TRUE, lines |-> g] :
        g \in Grids(Headers1, Lines1) \cup Grids(Headers2, Lines2) \cup Grids({}, Lines3)
              \cup Grids({}, Lines4) \cup Grids(Headers5, Lines5)
              \cup {BulkLines(n) : n \in {BatchLimit, BatchLimit + 1}} }
    \cup { [utf8 |-> FALSE, lines |-> <<>>] }

CsvName == <<"data", ".csv">>

TxtName == <<"test", ".txt">>

\* the (filename, content) pairs of the uploads
Uploads ==
    { [filename |-> CsvName, content |-> c] : c \in CsvContents }
    \cup { [filename |-> TxtName, content |-> [utf8 |-> TRUE, lines |-> << << <<"Engineering">> >> >>]] }

\* a store that earlier uploads have filled
SeededStore ==
    [departments |-> << [id |-> 1, department |-> <<"Engineering">>] >>,
     jobs |-> << [id |-> 1, job |-> <<"Recruiter">>, department_id |-> 1] >>,
     employees |-> <<>>]

(***************************************************************************)
(* The state machine: one request, served by one of the two handlers, over *)
(* a store.                                                                *)
(***************************************************************************)
VARIABLES
    store,          \* the three tables
    foreign_keys,   \* whether the engine enforces the foreign keys
    req             \* the request: its inputs, its position, its response

vars == <<store, foreign_keys, req>>

Idle ==
    [pc |-> "idle", path |-> "none", table |-> "", filename |-> <<>>,
     content |-> [utf8 |-> TRUE, lines |-> <<>>], data |-> <<>>,
     validated_data |-> <<>>, response |-> NoResponse]

Init ==
    /\ store \in {EmptyStore, SeededStore}
    /\ foreign_keys \in BOOLEAN
    /\ req = Idle

\* POST /upload-csv, up to the call of the store
upload_csv ==
    /\ req.pc = "idle"
    /\ \E table \in Tables, u \in Uploads :
          LET o == upload_csv_body(table, u.filename, u.content)
          IN  req' = [req EXCEPT !.pc = o.pc, !.path = "csv", !.table = table,
                                 !.filename = u.filename, !.content = u.content,
                                 !.validated_data = o.validated_data,
                                 !.response = o.response]
    /\ UNCHANGED <<store, foreign_keys>>

\* POST /batch-insert, up to the call of the store
batch_insert ==
    /\ req.pc = "idle"
    /\ \E table \in Tables, data \in BatchInputs :
          LET o == batch_insert_body(table, data)
          IN  req' = [req EXCEPT !.pc = o.pc, !.path = "batch", !.table = table,
                                 !.data = data,
                                 !.validated_data = o.validated_data,
                                 !.response = o.response]
    /\ UNCHANGED <<store, foreign_keys>>

\* batch_create_*: the batch is committed and the handler answers 200 with
\* the number of records
batch_create_commit ==
    /\ req.pc = "insert"
    /\ Accepts(store, foreign_keys, req.table, req.validated_data)
    /\ store' = Committed(store, req.table, req.validated_data)
    /\ req' = [req EXCEPT !.pc = "done",
                          !.response = Response(200, "Successfully", <<>>,
                                                Len(req.validated_data))]
    /\ UNCHANGED foreign_keys

\* batch_create_*: the store raises, the session is rolled back and the
\* handler answers through its except clauses
batch_create_raise ==
    /\ req.pc = "insert"
    /\ ~Accepts(store, foreign_keys, req.table, req.validated_data)
    /\ req' = [req EXCEPT !.pc = "done",
                          !.response = ExceptClauses("IntegrityError", "", <<>>)]
    /\ UNCHANGED <<store, foreign_keys>>

Next == upload_csv \/ batch_insert \/ batch_create_commit \/ batch_create_raise

Spec == Init /\ [][Next]_vars

(***************************************************************************)
(* Concurrent requests.  Each request runs its handler up to the call of   *)
(* the store on its own; the calls of the store, each one transaction,     *)
(* interleave in any order.  Here req maps a request to its record.        *)
(***************************************************************************)
MaxRequests == 2

Requests == 1..MaxRequests

\* a per-record variant of batch_create: each record is committed on its
\* own, as create_department does, so the records before the one that
\* raises stay in the table
batch_create_one_by_one(st, enforce, table, recs) ==
    LET p == SetMax({k \in 0..Len(recs) : Accepts(st, enforce, table, SubSeq(recs, 1, k))})
    IN  [store |-> Committed(st, table, SubSeq(recs, 1, p)), raised |-> p < Len(recs)]

\* batch_create_departments / _jobs / _employees: add_all and one commit;
\* an error of the store rolls the session back and is raised again
batch_create(st, enforce, table, recs) ==
    IF Accepts(st, enforce, table, recs)
    THEN [store |-> Committed(st, table, recs), raised |-> FALSE]
    ELSE [store |-> st, raised |-> TRUE]

\* the uploads that race: department files that share a name
ConcurrentUploads ==
    { [table |-> "departments",
       lines |-> << << <<"1">>, <<"Engineering">> >>, << <<"2">>, <<" ", "Sales", " ">> >> >>],
      [table |-> "departments",
       lines |-> << << <<"4">>, <<"Finance">> >>, << <<"1">>, <<"Engineering">> >> >>],
      [table |-> "departments", lines |-> << << <<"3">>, <<>> >> >>] }

\* the batches that race
ConcurrentBatches ==
    { [table |-> "departments",
       data |-> << [department |-> StrV(<<"Marketing">>)],
                   [department |-> StrV(<<"Engineering">>)] >>],
      [table |-> "jobs",
       data |-> << [job |-> StrV(<<"Software", " ", "Engineer">>), department_id |-> IntV(1)],
                   [job |-> StrV(<<" ", "Recruiter">>), department_id |-> StrV(<<"2">>)] >>],
      [table |-> "hired_employees", data |-> << John >>] }

InitConcurrent ==
    /\ store \in {EmptyStore, SeededStore}
    /\ foreign_keys \in BOOLEAN
    /\ req = [r \in Requests |-> Idle]

\* POST /upload-csv of request r, up to the call of the store
concurrent_upload_csv(r) ==
    /\ req[r].pc = "idle"
    /\ \E u \in ConcurrentUploads :
          LET content == [utf8 |-> TRUE, lines |-> u.lines]
              o == upload_csv_body(u.table, CsvName, content)
          IN  req' = [req EXCEPT ![r] = [@ EXCEPT !.pc = o.pc, !.path = "csv",
                                                  !.table = u.table,
                                                  !.filename = CsvName,
                                                  !.content = content,
                                                  !.validated_data = o.validated_data,
                                                  !.response = o.response]]
    /\ UNCHANGED <<store, foreign_keys>>

\* POST /batch-insert of request r, up to the call of the store
concurrent_batch_insert(r) ==
    /\ req[r].pc = "idle"
    /\ \E b \in ConcurrentBatches :
          LET o == batch_insert_body(b.table, b.data)
          IN  req' = [req EXCEPT ![r] = [@ EXCEPT !.pc = o.pc, !.path = "batch",
                                                  !.table = b.table,
                                                  !.data = b.data,
                                                  !.validated_data = o.validated_data,
                                                  !.response = o.response]]
    /\ UNCHANGED <<store, foreign_keys>>

\* the call of the store of request r and the handler's answer
concurrent_batch_create(r) ==
    /\ req[r].pc = "insert"
    /\ LET o == batch_create(store, foreign_keys, req[r].table, req[r].validated_data)
       IN  /\ store' = o.store
           /\ req' = [req EXCEPT ![r] = [@ EXCEPT
                         !.pc = "done",
                         !.response =
                             IF o.raised THEN ExceptClauses("IntegrityError", "", <<>>)
                             ELSE Response(200, "Successfully", <<>>,
                                           Len(req[r].validated_data))]]
    /\ UNCHANGED foreign_keys

NextConcurrent ==
    \E r \in Requests :
        \/ concurrent_upload_csv(r)
        \/ concurrent_batch_insert(r)
        \/ concurrent_batch_create(r)

SpecConcurrent == InitConcurrent /\ [][NextConcurrent]_vars
(***************************************************************************)
(* What the claims speak of.                                               *)
(***************************************************************************)
\* the handler got as far as running the validator on a DataFrame
ReachedValidator ==
    /\ req.pc # "idle"
    /\ req.table \in valid_tables
    /\ \/ req.path = "csv" /\ IsCsvName(req.filename) /\ ~parse_csv_content(req.content).raised
       \/ req.path = "batch" /\ BatchInsertRequest(req.data)

\* the DataFrame the validator was given
Df == IF req.path = "csv" THEN parse_csv_content(req.content).out ELSE DataFrame(req.data)

\* the mandatory columns of the data model, by table
Mandatory ==
    CASE req.table = "departments" -> {"department"}
      [] req.table = "jobs" -> {"job", "department_id"}
      [] OTHER -> {"name", "datetime", "department_id", "job_id"}

NameColumn ==
    CASE req.table = "departments" -> "department"
      [] req.table = "jobs" -> "job"
      [] OTHER -> "name"

StructurallyValid == ReachedValidator /\ Mandatory \subseteq Df.columns

\* a row with a blank or absent mandatory field
HasBlankField(row) == \E c \in Mandatory : Blank(row[c])

\* a row every mandatory field of which is present and parses
WellFormed(row) ==
    /\ ~Blank(row[NameColumn])
    /\ \A c \in Mandatory \cap {"department_id", "job_id"} : PyInt(row[c]).ok
    /\ "datetime" \in Mandatory =>
          row["datetime"].k = "str" /\ ToDatetime(row["datetime"].s).ok
                                    /\ ToDatetime(row["datetime"].s).v.k = "ts"

\* C1: for every table and every structurally valid input the validator
\* never fails the batch over a row's data: the request does not end in the
\* error of an unparseable ID, and exactly the well-formed rows are returned
C1_RowProblemNeverFailsBatch ==
    StructurallyValid =>
        /\ req.response.detail # "invalid literal for int()"
        /\ Len(req.validated_data) =
              Cardinality({i \in 1..Len(Df.rows) : WellFormed(Df.rows[i])})

\* validation ran on a non-empty, structurally valid input and returned no record
ValidationYieldedNothing ==
    /\ StructurallyValid
    /\ Len(Df.rows) > 0
    /\ ~get_table_validator(req.table, Df).raised
    /\ get_table_validator(req.table, Df).out = <<>>

\* C2: on both paths, a non-empty structurally valid input of which
\* validation keeps no record ends in the client error 400, never in the
\* 500, and nothing is inserted
C2_EmptyResultIsClientError ==
    ValidationYieldedNothing =>
        /\ req.pc = "done"
        /\ req.response.status = 400
        /\ req.response.records_inserted = 0

C4_GuardBoundaryExact ==
    (req.path = "batch" /\ req.pc # "idle" /\ req.table \in valid_tables) =>
        /\ Len(req.data) = 0 =>
              req.response.status = 400 /\ req.response.detail = "Empty data list"
        /\ Len(req.data) = BatchLimit + 1 =>
              /\ req.response.status = 400
              /\ req.response.detail = "Batch size cannot exceed 1000 records"
        /\ (Len(req.data) = BatchLimit /\ StructurallyValid
              /\ \A i \in 1..Len(Df.rows) : WellFormed(Df.rows[i])) =>
              Len(req.validated_data) = BatchLimit

\* C5: an upload whose first line is the header `name` followed by N
\* non-blank lines hands N department records to the store, and an upload of
\* the header `name,department_id` and 2 data lines hands 2 job records
C5_HeaderRowNamesColumns ==
    (req.path = "csv" /\ req.pc # "idle" /\ IsCsvName(req.filename)
       /\ req.content.utf8 /\ Len(req.content.lines) >= 2) =>
        LET lines == req.content.lines
        IN  /\ (req.table = "departments" /\ lines[1] = << <<"name">> >>
                  /\ \A i \in 2..Len(lines) : Len(lines[i]) = 1 /\ strip(lines[i][1]) # <<>>) =>
                    Len(req.validated_data) = Len(lines) - 1
            /\ (req.table = "jobs" /\ lines[1] = << <<"name">>, <<"department_id">> >>
                  /\ Len(lines) = 3
                  /\ \A i \in 2..3 : /\ Len(lines[i]) = 2
                                     /\ strip(lines[i][1]) # <<>>
                                     /\ IsIntLiteral(lines[i][2])) =>
                    Len(req.validated_data) = 2

\* C6: a direct batch to departments every record of which carries a
\* non-blank `name` yields one department record per input record, carrying
\* that name, in input order
C6_NamedDepartmentsBatch ==
    (req.path = "batch" /\ req.pc # "idle" /\ req.table = "departments"
       /\ BatchInsertRequest(req.data)
       /\ \A i \in 1..Len(req.data) :
             "name" \in DOMAIN req.data[i] /\ ~Blank(req.data[i]["name"])) =>
        /\ req.response.status \notin {400, 422}
        /\ Len(req.validated_data) = Len(req.data)

\* C7 as claimed: a jobs input without the department_id column fails as a
\* whole with the missing-columns error naming department_id, and no job
\* record is produced
C7_MissingDepartmentIdFails ==
    (ReachedValidator /\ req.table = "jobs" /\ "department_id" \notin Df.columns) =>
        /\ req.pc = "done"
        /\ req.response.status = 400
        /\ req.response.detail = "Missing required columns"
        /\ \E i \in 1..Len(req.response.missing) : req.response.missing[i] = "department_id"
        /\ req.validated_data = <<>>

\* C7 as amended: a jobs input without the department_id column fails so
\* unless it carries both the `id` and the `job` column; such an input is
\* never refused for a missing column, and each job record made of it gets
\* the department_id 1
C7_MissingDepartmentIdFailsUnlessIdJob ==
    (ReachedValidator /\ req.table = "jobs" /\ "department_id" \notin Df.columns) =>
        IF {"id", "job"} \subseteq Df.columns
        THEN /\ req.response.detail # "Missing required columns"
             /\ Len(req.validated_data) =
                   Cardinality({i \in 1..Len(Df.rows) : ~Blank(Df.rows[i]["job"])})
             /\ \A i \in 1..Len(req.validated_data) :
                   req.validated_data[i].department_id = 1
        ELSE /\ req.pc = "done"
             /\ req.response.status = 400
             /\ req.response.detail = "Missing required columns"
             /\ \E i \in 1..Len(req.response.missing) :
                   req.response.missing[i] = "department_id"
             /\ req.validated_data = <<>>

\* C7: a jobs input of `id` and `job` columns went to the store with the
\* substituted department_id
C7_Witness ==
    /\ ReachedValidator /\ req.table = "jobs" /\ Df.columns = {"id", "job"}
    /\ req.pc = "insert"
    /\ req.validated_data[1].department_id = 1

\* C8: a request naming an unrecognized table ends in the 400 of the unknown
\* table whatever its payload
C8_UnknownTableFirst ==
    (req.pc # "idle" /\ req.table \notin valid_tables) =>
        /\ req.pc = "done"
        /\ req.response.status = 400
        /\ req.response.detail = "Invalid table name"

\* C9: of a structurally valid batch of N >= 2 rows in which exactly one row
\* has a blank or absent mandatory field and every other row is well-formed,
\* N - 1 records go to the store, and N - 1 is the count a success reports
C9_OneBlankRowDropped ==
    (StructurallyValid /\ Len(Df.rows) >= 2
       /\ \E i \in 1..Len(Df.rows) :
             /\ HasBlankField(Df.rows[i])
             /\ \A j \in 1..Len(Df.rows) : j # i => WellFormed(Df.rows[j])) =>
        /\ Len(req.validated_data) = Len(Df.rows) - 1
        /\ req.response.status = 200 => req.response.records_inserted = Len(Df.rows) - 1

\* t is raw without its leading and trailing spaces
IsTrimOf(t, raw) ==
    /\ t = <<>> \/ (t[1] # " " /\ t[Len(t)] # " ")
    /\ \E a \in 0..Len(raw) :
          /\ a + Len(t) <= Len(raw)
          /\ \A i \in 1..Len(raw) :
                IF i > a /\ i <= a + Len(t) THEN raw[i] = t[i - a] ELSE raw[i] = " "

\* the record rec is what the row gives: its name is the row's name without
\* the surrounding whitespace, and an ID it takes from a column of the input
\* is that cell's integer
IsImageOf(rec, row) ==
    /\ IsTrimOf(rec[NameColumn], ToStr(row[NameColumn]))
    /\ \A c \in {"department_id", "job_id"} \cap DOMAIN rec \cap DOMAIN row :
          \/ row[c].k = "int" /\ rec[c] = row[c].n
          \/ row[c].k = "str" /\ IsTrimOf(IntToText(rec[c]), row[c].s)

\* C10: the validated output is an order-preserving image of a subset of the
\* input rows: there are no more records than rows, and the records are, in
\* order, the images of rows of strictly increasing index, each string field
\* being the row's value without its surrounding whitespace
C10_OutputIsOrderedImage ==
    (ReachedValidator /\ req.validated_data # <<>>) =>
        LET out == req.validated_data
            rows == Df.rows
        IN  /\ Len(out) <= Len(rows)
            /\ IF Len(out) = Len(rows)
               THEN \A i \in 1..Len(out) : IsImageOf(out[i], rows[i])
               ELSE \E f \in [1..Len(out) -> 1..Len(rows)] :
                      /\ \A i \in 1..Len(out) : IsImageOf(out[i], rows[f[i]])
                      /\ \A i \in 1..Len(out) : \A j \in 1..Len(out) : i < j => f[i] < f[j]

\* C10: a row was dropped, two were kept, and a kept name lost its
\* surrounding whitespace
C10_Witness ==
    /\ ReachedValidator /\ req.pc = "insert"
    /\ Len(req.validated_data) >= 2
    /\ Len(req.validated_data) < Len(Df.rows)
    /\ \E i \in 1..Len(Df.rows) :
          ~Blank(Df.rows[i][NameColumn])
          /\ strip(ToStr(Df.rows[i][NameColumn])) # ToStr(Df.rows[i][NameColumn])
\* C11: every record handed to the store is within the bounds of the data
\* model: its name has between 1 and 100 characters and every ID it carries
\* is a positive integer (a name is counted in tokens, each of which is at
\* least one character)
C11_RecordsWithinModelBounds ==
    req.pc = "insert" =>
        \A i \in 1..Len(req.validated_data) :
            LET rec == req.validated_data[i]
            IN  /\ Len(rec[NameColumn]) >= 1
                /\ Len(rec[NameColumn]) <= 100
                /\ \A c \in {"department_id", "job_id"} \cap DOMAIN rec : rec[c] > 0

\* the table of the store a request writes to
TableOf(table) == IF table \in {"departments", "jobs"} THEN table ELSE "employees"

\* the rows of new are the rows of old followed by one row for each of recs,
\* in order, carrying its fields
Persisted(old, new, table, recs) ==
    LET T == TableOf(table)
    IN  /\ \A U \in {"departments", "jobs", "employees"} \ {T} : new[U] = old[U]
        /\ Len(new[T]) = Len(old[T]) + Len(recs)
        /\ SubSeq(new[T], 1, Len(old[T])) = old[T]
        /\ \A i \in 1..Len(recs) :
              \A c \in DOMAIN recs[i] : new[T][Len(old[T]) + i][c] = recs[i][c]

\* C12: under any interleaving of concurrent requests, the call of the
\* store by a request either persists every one of its validated records
\* and is answered with success, or persists none and is answered 500; the
\* store changes in no other way, so it never holds a part of a batch
C12_AllOrNothing ==
    [][ /\ \A r \in Requests :
              (req[r].pc = "insert" /\ req'[r].pc = "done") =>
                  IF req'[r].response.status = 200
                  THEN /\ Persisted(store, store', req[r].table, req[r].validated_data)
                       /\ req'[r].response.records_inserted = Len(req[r].validated_data)
                  ELSE /\ store' = store
                       /\ req'[r].response.status = 500
        /\ store' # store =>
              \E r \in Requests : /\ req[r].pc = "insert" /\ req'[r].pc = "done"
                                  /\ req'[r].response.status = 200 ]_vars

\* C12: two uploads raced for the same new department name: one succeeded,
\* the other was answered 500
C12_Witness ==
    \E r1 \in Requests : \E r2 \in Requests \ {r1} :
        /\ req[r1].path = "csv" /\ req[r2].path = "csv"
        /\ req[r1].pc = "done" /\ req[r1].response.status = 200
        /\ req[r2].pc = "done" /\ req[r2].response.status = 500
        /\ \E i \in 1..Len(req[r1].validated_data) :
              \E j \in 1..Len(req[r2].validated_data) :
                  req[r1].validated_data[i].department = req[r2].validated_data[j].department

\* the request got an outcome of the row validator: one of its errors, a
\* validated output, or the 500 of an output with no record
ValidatorRan ==
    \/ req.response.detail \in {"Missing required columns", "invalid literal for int()"}
    \/ req.validated_data # <<>>
    \/ req.response.status = 500

\* the number of rows the size guard would count
InputSize == IF req.path = "csv" THEN Len(Df.rows) ELSE Len(req.data)

\* the outcome of a request shows the steps in order: nothing follows a
\* failed table resolution, a parse error or a size error is of a resolved
\* table, the validator ran only on a parsed upload or a batch, on a path
\* in guarded only on 1 to 1000 rows, the store is called only with a
\* validated record, and a success reports the number of validated records
StepsInOrder(guarded) ==
    req.pc # "idle" =>
        /\ req.table \notin valid_tables =>
              /\ req.pc = "done" /\ req.validated_data = <<>>
              /\ req.response.detail \in {"Invalid table name", "Unprocessable Entity"}
        /\ req.response.detail \in {"Invalid CSV format", "Empty data list",
                                    "Batch size cannot exceed 1000 records"} =>
              req.table \in valid_tables /\ req.validated_data = <<>>
        /\ ValidatorRan =>
              /\ req.table \in valid_tables
              /\ req.path = "csv" =>
                    IsCsvName(req.filename) /\ ~parse_csv_content(req.content).raised
              /\ req.path \in guarded => InputSize \in 1..BatchLimit
        /\ req.pc = "insert" => req.validated_data # <<>>
        /\ req.response.status = 200 =>
              /\ req.validated_data # <<>>
              /\ req.response.records_inserted = Len(req.validated_data)

\* a step calls the store at most once per request: the call is entered
\* from the handler only, a finished request takes no step, the store
\* changes only by a successful call, which adds the validated records and
\* reports their number, and any other end leaves the store as it was
StoreCalledOnce ==
    /\ req.pc # "done"
    /\ req'.pc = "insert" => req.pc = "idle"
    /\ store' # store =>
          req.pc = "insert" /\ req'.pc = "done" /\ req'.response.status = 200
    /\ (req'.pc = "done" /\ req'.response.status = 200) =>
          /\ req.pc = "insert"
          /\ Persisted(store, store', req.table, req.validated_data)
          /\ req'.response.records_inserted = Len(req.validated_data)
    /\ (req'.pc = "done" /\ req'.response.status # 200) => store' = store

FirstLine ==
    LET lines == req.content.lines
        k == CHOOSE i \in 1..Len(lines) :
                /\ lines[i] # << <<>> >>
                /\ \A j \in 1..(i - 1) : lines[j] = << <<>> >>
    IN  lines[k]

\* the second cell of the first line holds a department / a job keyword
HasDepartmentKeyword ==
    \E i \in 1..Len(FirstLine[2]) :
        FirstLine[2][i] \in {"Product Management", "Sales", "Engineering"}

HasJobKeyword ==
    \E i \in 1..Len(FirstLine[2]) :
        FirstLine[2][i] \in {"Recruiter", "Manager", "Assistant", "VP"}

\* the column names that follow from the number of cells of the first line
\* and, for 2 cells, from the second of them
NamesByCount ==
    LET n == Len(FirstLine)
    IN  CASE n = 2 ->
               IF HasDepartmentKeyword THEN {"id", "department"}
               ELSE IF HasJobKeyword THEN {"id", "job"}
               ELSE {"id", "name"}
          [] n = 4 -> {"id", "name", "datetime", "department_id"}
          [] n = 5 -> {"id", "name", "datetime", "department_id", "job_id"}
          [] OTHER -> {DigitTok[j] : j \in 1..n}

\* the three cases in which an upload can get to the store
Admitted ==
    \/ req.table = "departments" /\ Len(FirstLine) = 2 /\ HasDepartmentKeyword
    \/ req.table = "jobs" /\ Len(FirstLine) = 2 /\ ~HasDepartmentKeyword /\ HasJobKeyword
    \/ req.table \in {"employees", "hired_employees"} /\ Len(FirstLine) = 5

========================================================================
